---- MODULE Spec2Model ----
(***************************************************************************)
(* Mini C compiler (lexical.py, parser.py, semantic.py, codegen.py,        *)
(* optimizer.py) and its TAC interpreter (main.py TACInterpreter).         *)
(*                                                                         *)
(* Python objects are encoded as records with uniform fields:              *)
(*   an int n        [k |-> "int",  n |-> n, s |-> ""]                     *)
(*   a  str s        [k |-> "str",  n |-> 0, s |-> s]                      *)
(*   None            [k |-> "none", n |-> 0, s |-> ""]                     *)
(* A TAC quadruple (op, a1, a2, res) is [op, a1, a2, res] over these.      *)
(* Sequences are 1-based, so every index is the Python index plus one.     *)
(***************************************************************************)
EXTENDS Integers, Sequences, FiniteSets, TLC

VARIABLES
    source,         \* the AST handed to SemanticAnalyzer / CodeGenerator
    stage,          \* position in compile_source / in Optimizer / in execute
    tac,            \* the TAC list the current stage holds
    labels,         \* TACInterpreter.labels
    functions,      \* TACInterpreter.functions
    env_stack,      \* TACInterpreter.env_stack
    pc_stack,       \* the local pc of every active run_func, oldest first
    params,         \* TACInterpreter.params
    output,         \* TACInterpreter.output
    return_value,   \* TACInterpreter.return_value
    error,          \* the exception that ended the pipeline, "" if none
    lost_jump,      \* history: a jump to a label missing from labels was taken
    entry_depth     \* history: len(self.params) at the entry of every active
                    \* run_func, oldest first

vars == <<source, stage, tac, labels, functions, env_stack, pc_stack,
          params, output, return_value, error, lost_jump, entry_depth>>

---------------------------------------------------------------------------
(* Bounds of the checked input sets *)

MaxN == 4
MaxK == 3
MaxA == 7
MaxB == 3
MaxLen == 3
MaxStmts == 2

MaxSteps == 150

---------------------------------------------------------------------------
(* Python values *)

IntObj(n) == [k |-> "int", n |-> n, s |-> ""]
StrObj(s) == [k |-> "str", n |-> 0, s |-> s]
None == [k |-> "none", n |-> 0, s |-> ""]

IsInt(o) == o.k = "int"
IsStr(o) == o.k = "str"
IsNone(o) == o.k = "none"

Quad(op, a1, a2, res) == [op |-> op, a1 |-> a1, a2 |-> a2, res |-> res]

Min(a, b) == IF a < b THEN a ELSE b

---------------------------------------------------------------------------
(* Python str and int built-ins used by the optimizer and the interpreter *)

Char(s, i) == SubSeq(s, i, i)

DigitChars == {"0", "1", "2", "3", "4", "5", "6", "7", "8", "9"}

DigitVal(c) ==
    CASE c = "0" -> 0 [] c = "1" -> 1 [] c = "2" -> 2 [] c = "3" -> 3
      [] c = "4" -> 4 [] c = "5" -> 5 [] c = "6" -> 6 [] c = "7" -> 7
      [] c = "8" -> 8 [] c = "9" -> 9

\* str.isdigit()
isdigit(s) == Len(s) > 0 /\ \A i \in 1..Len(s) : Char(s, i) \in DigitChars

RECURSIVE DigitsToInt(_)
DigitsToInt(s) ==
    IF Len(s) = 0 THEN 0
    ELSE DigitsToInt(SubSeq(s, 1, Len(s) - 1)) * 10 + DigitVal(Char(s, Len(s)))

\* int(s) succeeds on an optionally signed run of digits (surrounding blanks
\* and digit-group underscores, which no operand of this model has, aside)
int_parses(s) ==
    \/ isdigit(s)
    \/ Len(s) >= 2 /\ Char(s, 1) \in {"-", "+"} /\ isdigit(SubSeq(s, 2, Len(s)))

int_of(s) ==
    IF isdigit(s) THEN DigitsToInt(s)
    ELSE IF Char(s, 1) = "-" THEN 0 - DigitsToInt(SubSeq(s, 2, Len(s)))
    ELSE DigitsToInt(SubSeq(s, 2, Len(s)))

\* str.startswith("t")
startswith_t(s) == Len(s) >= 1 /\ Char(s, 1) = "t"

\* str(n) for an int n
str_of_int(n) == ToString(n)

\* Python's floor division a // b, b # 0
floordiv(a, b) == IF b > 0 THEN a \div b ELSE (0 - a) \div (0 - b)

\* C's division, rounding toward zero, b # 0
Abs(a) == IF a < 0 THEN 0 - a ELSE a
truncdiv(a, b) ==
    IF (a < 0) = (b < 0) THEN Abs(a) \div Abs(b) ELSE 0 - (Abs(a) \div Abs(b))

\* str(a / b) for ints a, b # 0: the repr of a float always has a fraction
\* part; only its first fraction digits are kept here
float_str(a, b) ==
    str_of_int(a \div b) \o "." \o str_of_int(((a % b) * 10) \div b)

bool_str(b) == IF b THEN "True" ELSE "False"

---------------------------------------------------------------------------
(* AST nodes (parser.py).  An absent Declaration.value is NoValue; an absent
   If.else_body is the empty list, which every consumer treats like None. *)

\* Number.value is a Python int (int(value)), String.value a Python str
Number(value) == [type |-> "Number", value |-> IntObj(value)]
String(value) == [type |-> "String", value |-> StrObj(value)]
Var(name) == [type |-> "Var", name |-> name]
BinOp(left, op, right) ==
    [type |-> "BinOp", left |-> left, op |-> op, right |-> right]
FuncCall(name, args) == [type |-> "FuncCall", name |-> name, args |-> args]
NoValue == [type |-> "None"]
Declaration(var_name, value) ==
    [type |-> "Declaration", var_name |-> var_name, value |-> value]
Assignment(var_name, value) ==
    [type |-> "Assignment", var_name |-> var_name, value |-> value]
Return(value) == [type |-> "Return", value |-> value]
PrintStmt(value) == [type |-> "Print", value |-> value]
If(condition, then_body, else_body) ==
    [type |-> "If", condition |-> condition, then_body |-> then_body,
     else_body |-> else_body]
While(condition, body) ==
    [type |-> "While", condition |-> condition, body |-> body]
Function(name, fparams, body) ==
    [name |-> name, params |-> fparams, body |-> body]
Program(funcs) == [functions |-> funcs]

---------------------------------------------------------------------------
(* semantic.py: SemanticAnalyzer.  symbol_table is the set of its keys; the
   function table self.functions is read off the program, whose function
   names analyze has found distinct.  A raised Semantic Error is the type
   "error" of an expression and ok = FALSE of a statement. *)

HasFunction(prog, name) ==
    \E i \in 1..Len(prog.functions) : prog.functions[i].name = name

FunctionNamed(prog, name) ==
    prog.functions[CHOOSE i \in 1..Len(prog.functions) :
                       prog.functions[i].name = name]

RECURSIVE visit_expression(_, _, _)
RECURSIVE visit_funccall(_, _, _)
RECURSIVE visit_statement(_, _, _)
RECURSIVE visit_body(_, _, _)

\* (a mutant: the number of arguments is not compared with the parameters)
visit_funccall_any_arity(call, prog, symbol_table) ==
    /\ HasFunction(prog, call.name)
    /\ \A i \in 1..Len(call.args) :
           visit_expression(call.args[i], prog, symbol_table) # "error"

visit_funccall(call, prog, symbol_table) ==
    /\ HasFunction(prog, call.name)
    /\ Len(call.args) = Len(FunctionNamed(prog, call.name).params)
    /\ \A i \in 1..Len(call.args) :
           visit_expression(call.args[i], prog, symbol_table) # "error"

visit_expression(expr, prog, symbol_table) ==
    CASE expr.type = "Number" -> "int"
      [] expr.type = "String" -> "string"
      [] expr.type = "Var" ->
            IF expr.name \in symbol_table THEN "int" ELSE "error"
      [] expr.type = "BinOp" ->
            LET left_type == visit_expression(expr.left, prog, symbol_table)
                right_type == visit_expression(expr.right, prog, symbol_table)
            IN  IF left_type = "error" \/ right_type = "error" THEN "error"
                ELSE IF left_type # "int" \/ right_type # "int" THEN "error"
                ELSE "int"
      [] expr.type = "FuncCall" ->
            IF visit_funccall(expr, prog, symbol_table) THEN "int" ELSE "error"
      [] OTHER -> "error"

\* the statements of a body in order, stopping at the first error
visit_body(stmts, prog, symbol_table) ==
    IF Len(stmts) = 0 THEN [ok |-> TRUE, symbol_table |-> symbol_table]
    ELSE LET r == visit_statement(Head(stmts), prog, symbol_table)
         IN  IF r.ok THEN visit_body(Tail(stmts), prog, r.symbol_table)
             ELSE r

\* (a mutant: the table is not put back after a then-, else- or while-body)
visit_statement_leaky(stmt, prog, symbol_table) ==
    LET fail == [ok |-> FALSE, symbol_table |-> symbol_table]
        keep(ok) == [ok |-> ok, symbol_table |-> symbol_table]
    IN
    CASE stmt.type = "Declaration" ->
            IF stmt.var_name \in symbol_table THEN fail
            ELSE LET declared == symbol_table \cup {stmt.var_name}
                 IN  [ok |-> \/ stmt.value.type = "None"
                             \/ visit_expression(stmt.value, prog, declared)
                                    # "error",
                      symbol_table |-> declared]
      [] stmt.type = "Assignment" ->
            IF stmt.var_name \notin symbol_table THEN fail
            ELSE keep(visit_expression(stmt.value, prog, symbol_table) # "error")
      [] stmt.type = "Return" ->
            keep(visit_expression(stmt.value, prog, symbol_table) # "error")
      [] stmt.type = "Print" ->
            keep(visit_expression(stmt.value, prog, symbol_table)
                     \in {"int", "string"})
      [] stmt.type = "If" ->
            IF visit_expression(stmt.condition, prog, symbol_table) = "error"
            THEN fail
            ELSE LET t == visit_body(stmt.then_body, prog, symbol_table)
                 IN  IF ~t.ok THEN fail
                     ELSE visit_body(stmt.else_body, prog, t.symbol_table)
      [] stmt.type = "While" ->
            IF visit_expression(stmt.condition, prog, symbol_table) = "error"
            THEN fail
            ELSE visit_body(stmt.body, prog, symbol_table)
      [] stmt.type = "FuncCall" ->
            keep(visit_funccall(stmt, prog, symbol_table))
      [] OTHER -> fail

visit_statement(stmt, prog, symbol_table) ==
    LET fail == [ok |-> FALSE, symbol_table |-> symbol_table]
        keep(ok) == [ok |-> ok, symbol_table |-> symbol_table]
    IN
    CASE stmt.type = "Declaration" ->
            IF stmt.var_name \in symbol_table THEN fail
            ELSE LET declared == symbol_table \cup {stmt.var_name}
                 IN  [ok |-> \/ stmt.value.type = "None"
                             \/ visit_expression(stmt.value, prog, declared)
                                    # "error",
                      symbol_table |-> declared]
      [] stmt.type = "Assignment" ->
            IF stmt.var_name \notin symbol_table THEN fail
            ELSE keep(visit_expression(stmt.value, prog, symbol_table) # "error")
      [] stmt.type = "Return" ->
            keep(visit_expression(stmt.value, prog, symbol_table) # "error")
      [] stmt.type = "Print" ->
            keep(visit_expression(stmt.value, prog, symbol_table)
                     \in {"int", "string"})
      [] stmt.type = "If" ->
            \* the bodies run on self.symbol_table itself; saved_scope is put
            \* back after each of them
            IF visit_expression(stmt.condition, prog, symbol_table) = "error"
            THEN fail
            ELSE IF ~visit_body(stmt.then_body, prog, symbol_table).ok THEN fail
            ELSE keep(visit_body(stmt.else_body, prog, symbol_table).ok)
      [] stmt.type = "While" ->
            IF visit_expression(stmt.condition, prog, symbol_table) = "error"
            THEN fail
            ELSE keep(visit_body(stmt.body, prog, symbol_table).ok)
      [] stmt.type = "FuncCall" ->
            keep(visit_funccall(stmt, prog, symbol_table))
      [] OTHER -> fail

visit_function(func, prog) ==
    /\ \A i, j \in 1..Len(func.params) :
           i # j => func.params[i] # func.params[j]
    /\ visit_body(func.body, prog,
                  {func.params[i] : i \in 1..Len(func.params)}).ok

\* TRUE iff analyze() returns without raising
analyze(prog) ==
    /\ \A i, j \in 1..Len(prog.functions) :
           i # j => prog.functions[i].name # prog.functions[j].name
    /\ \A i \in 1..Len(prog.functions) :
           visit_function(prog.functions[i], prog)

---------------------------------------------------------------------------
(* codegen.py: CodeGenerator.  The generator's fields travel as the record
   g = [code, temp_count, label_count]. *)

NewGenerator == [code |-> <<>>, temp_count |-> 0, label_count |-> 0]

emit(g, op, a1, a2, res) ==
    [g EXCEPT !.code = Append(g.code, Quad(op, a1, a2, res))]

\* new_temp: the generator after the call, and the name in .name
new_temp(g) ==
    [g |-> [g EXCEPT !.temp_count = g.temp_count + 1],
     name |-> "t" \o str_of_int(g.temp_count + 1)]

new_label(g, base) ==
    [g |-> [g EXCEPT !.label_count = g.label_count + 1],
     name |-> base \o str_of_int(g.label_count + 1)]

RECURSIVE generate_expression(_, _)
RECURSIVE generate_args(_, _)
RECURSIVE generate_statement(_, _)
RECURSIVE generate_body(_, _)

\* (a mutant: the arguments are lowered and pushed right to left)
RECURSIVE generate_args_reversed(_, _)
generate_args_reversed(args, g) ==
    IF Len(args) = 0 THEN g
    ELSE LET a == generate_expression(args[Len(args)], g)
         IN  generate_args_reversed(SubSeq(args, 1, Len(args) - 1),
                                    emit(a.g, "PARAM", a.val, None, None))

\* the loop over expr.args: each argument lowered, then its PARAM
generate_args(args, g) ==
    IF Len(args) = 0 THEN g
    ELSE LET a == generate_expression(Head(args), g)
         IN  generate_args(Tail(args), emit(a.g, "PARAM", a.val, None, None))

\* the generator after the call, and the returned operand name in .val
generate_expression(expr, g) ==
    CASE expr.type = "Number" ->
            LET t == new_temp(g)
            IN  [g |-> emit(t.g, "MOV", expr.value, None, StrObj(t.name)),
                 val |-> StrObj(t.name)]
      [] expr.type = "String" ->
            LET t == new_temp(g)
            IN  [g |-> emit(t.g, "MOV", StrObj("\"" \o expr.value.s \o "\""),
                            None, StrObj(t.name)),
                 val |-> StrObj(t.name)]
      [] expr.type = "Var" -> [g |-> g, val |-> StrObj(expr.name)]
      [] expr.type = "BinOp" ->
            LET left == generate_expression(expr.left, g)
                right == generate_expression(expr.right, left.g)
                t == new_temp(right.g)
            IN  [g |-> emit(t.g, expr.op, left.val, right.val, StrObj(t.name)),
                 val |-> StrObj(t.name)]
      [] expr.type = "FuncCall" ->
            LET pushed == generate_args(expr.args, g)
                called == emit(pushed, "CALL", StrObj(expr.name),
                               IntObj(Len(expr.args)), None)
                t == new_temp(called)
            IN  [g |-> emit(t.g, "POP", None, None, StrObj(t.name)),
                 val |-> StrObj(t.name)]

\* for s in body: generate_statement(s).  The generator after each statement
\* is bound as a value before the next statement is lowered.
generate_body(stmts, g) ==
    IF Len(stmts) = 0 THEN g
    ELSE CHOOSE r \in {generate_body(Tail(stmts), g1) :
                           g1 \in {generate_statement(Head(stmts), g)}} : TRUE

generate_statement(stmt, g) ==
    CASE stmt.type = "Declaration" ->
            IF stmt.value.type = "None" THEN g
            ELSE LET v == generate_expression(stmt.value, g)
                 IN  emit(v.g, "MOV", v.val, None, StrObj(stmt.var_name))
      [] stmt.type = "Assignment" ->
            LET v == generate_expression(stmt.value, g)
            IN  emit(v.g, "MOV", v.val, None, StrObj(stmt.var_name))
      [] stmt.type = "Return" ->
            LET v == generate_expression(stmt.value, g)
            IN  emit(v.g, "RET", v.val, None, None)
      [] stmt.type = "Print" ->
            LET v == generate_expression(stmt.value, g)
            IN  emit(v.g, "PRINT", v.val, None, None)
      [] stmt.type = "If" ->
            LET cond == generate_expression(stmt.condition, g)
                else_label == new_label(cond.g, "ELSE")
                end_label == new_label(else_label.g, "ENDIF")
                g1 == emit(end_label.g, "IFZ_GOTO", cond.val, None,
                           StrObj(else_label.name))
                g2 == generate_body(stmt.then_body, g1)
                g3 == emit(g2, "GOTO", StrObj(end_label.name), None, None)
                g4 == emit(g3, "LABEL", StrObj(else_label.name), None, None)
                g5 == generate_body(stmt.else_body, g4)
            IN  emit(g5, "LABEL", StrObj(end_label.name), None, None)
      [] stmt.type = "While" ->
            LET start_label == new_label(g, "WHILE_START")
                end_label == new_label(start_label.g, "WHILE_END")
                g1 == emit(end_label.g, "LABEL", StrObj(start_label.name),
                           None, None)
                cond == generate_expression(stmt.condition, g1)
                g2 == emit(cond.g, "IFZ_GOTO", cond.val, None,
                           StrObj(end_label.name))
                g3 == generate_body(stmt.body, g2)
                g4 == emit(g3, "GOTO", StrObj(start_label.name), None, None)
            IN  emit(g4, "LABEL", StrObj(end_label.name), None, None)
      [] stmt.type = "FuncCall" -> generate_expression(stmt, g).g

\* (a mutant: the formal parameters are declared last to first)
RECURSIVE generate_params_reversed(_, _)
generate_params_reversed(ps, g) ==
    IF Len(ps) = 0 THEN g
    ELSE generate_params_reversed(SubSeq(ps, 1, Len(ps) - 1),
             emit(g, "PARAM_DECL", StrObj(ps[Len(ps)]), None, None))

RECURSIVE generate_params(_, _)
generate_params(ps, g) ==
    IF Len(ps) = 0 THEN g
    ELSE generate_params(Tail(ps),
                         emit(g, "PARAM_DECL", StrObj(Head(ps)), None, None))

RECURSIVE generate_functions(_, _)
generate_functions(funcs, g) ==
    IF Len(funcs) = 0 THEN g
    ELSE LET func == Head(funcs)
             g1 == emit(g, "FUNC", StrObj(func.name), None, None)
             g2 == generate_params(func.params, g1)
             g3 == generate_body(func.body, g2)
         IN  CHOOSE r \in {generate_functions(Tail(funcs), g4) :
                 g4 \in {emit(g3, "END_FUNC", StrObj(func.name), None, None)}} :
                     TRUE

\* CodeGenerator(ast).generate()
generate(prog) == generate_functions(prog.functions, NewGenerator).code

---------------------------------------------------------------------------
(* optimizer.py: Optimizer.  temp_map is a function from names to operands;
   the state of the first loop is o = [optimized, temp_map, raised]. *)

ControlOps == {"LABEL", "GOTO", "IFZ_GOTO", "FUNC", "END_FUNC", "PARAM",
               "CALL", "POP", "PARAM_DECL"}
BinaryOps == {"PLUS", "MINUS", "MUL", "DIV", "EQ", "NE", "GT", "LT", "GE", "LE"}

\* the opcodes of the else-branch of the binary case: both operands go
\* through _ensure_int
StrictOps == BinaryOps \ {"EQ", "NE"}

MapSet(m, key, val) ==
    [x \in DOMAIN m \cup {key} |-> IF x = key THEN val ELSE m[x]]

EmptyMap == [x \in {} |-> None]

\* resolve(x) if isinstance(x, str) else x
resolve(temp_map, x) ==
    IF IsStr(x) /\ x.s \in DOMAIN temp_map THEN temp_map[x.s] ELSE x

\* res and res.startswith("t")
is_temp_target(res) == IsStr(res) /\ startswith_t(res.s)

\* (a mutant: int operands, which is what Number literals lower to, fold too)
foldable_numeric(left, right) ==
    /\ IsInt(left) \/ (IsStr(left) /\ isdigit(left.s))
    /\ IsInt(right) \/ (IsStr(right) /\ isdigit(right.s))

\* isinstance(left, str) and left.isdigit() and isinstance(right, str) and
\* right.isdigit()
foldable(left, right) ==
    IsStr(left) /\ isdigit(left.s) /\ IsStr(right) /\ isdigit(right.s)

\* the number the text f"{x}" denotes
operand_number(x) == IF IsInt(x) THEN x.n ELSE int_of(x.s)

\* eval(f"{left}{sym}{right}") raises ZeroDivisionError
fold_raises(op, left, right) == op = "DIV" /\ operand_number(right) = 0

\* str(eval(f"{left}{sym}{right}")), the digit runs having no leading zero
folded(op, left, right) ==
    LET a == operand_number(left)
        b == operand_number(right)
    IN  CASE op = "PLUS" -> str_of_int(a + b)
          [] op = "MINUS" -> str_of_int(a - b)
          [] op = "MUL" -> str_of_int(a * b)
          [] op = "DIV" -> float_str(a, b)
          [] op = "EQ" -> bool_str(a = b)
          [] op = "NE" -> bool_str(a # b)
          [] op = "GT" -> bool_str(a > b)
          [] op = "LT" -> bool_str(a < b)
          [] op = "GE" -> bool_str(a >= b)
          [] op = "LE" -> bool_str(a <= b)

put(o, q) == [o EXCEPT !.optimized = Append(o.optimized, q)]
remember(o, key, val) == [o EXCEPT !.temp_map = MapSet(o.temp_map, key, val)]

\* the branch of the control-flow, PARAM, CALL and POP opcodes
optimize_control(o, ins) ==
    put(o, Quad(ins.op, resolve(o.temp_map, ins.a1),
                resolve(o.temp_map, ins.a2), ins.res))

\* the MOV branch
optimize_MOV(o, ins) ==
    LET src == resolve(o.temp_map, ins.a1)
    IN  IF is_temp_target(ins.res) THEN remember(o, ins.res.s, src)
        ELSE put(o, Quad("MOV", src, None, ins.res))

\* the constant-folding branch, taken when left and right are foldable
\* (a mutant: the folded literal is emitted whatever the destination)
fold_always_emits(o, op, left, right, res) ==
    IF fold_raises(op, left, right) THEN [o EXCEPT !.raised = TRUE]
    ELSE put(o, Quad("MOV", StrObj(folded(op, left, right)), None, res))

fold(o, op, left, right, res) ==
    IF fold_raises(op, left, right) THEN [o EXCEPT !.raised = TRUE]
    ELSE IF is_temp_target(res)
    THEN remember(o, res.s, StrObj(folded(op, left, right)))
    ELSE put(o, Quad("MOV", StrObj(folded(op, left, right)), None, res))

\* the branch of the arithmetic and relational opcodes
optimize_binary(o, ins) ==
    LET left == resolve(o.temp_map, ins.a1)
        right == resolve(o.temp_map, ins.a2)
    IN  IF foldable(left, right) THEN fold(o, ins.op, left, right, ins.res)
        ELSE put(o, Quad(ins.op, left, right, ins.res))

\* the RET and PRINT branches
optimize_unary(o, ins) ==
    put(o, Quad(ins.op, resolve(o.temp_map, ins.a1), None, None))

\* one iteration of the first loop of optimize
optimize_instr(o, ins) ==
    IF ins.op \in ControlOps THEN optimize_control(o, ins)
    ELSE IF ins.op = "MOV" THEN optimize_MOV(o, ins)
    ELSE IF ins.op \in BinaryOps THEN optimize_binary(o, ins)
    ELSE IF ins.op \in {"RET", "PRINT"} THEN optimize_unary(o, ins)
    ELSE put(o, ins)

RECURSIVE first_pass(_, _)
first_pass(code, o) ==
    IF Len(code) = 0 \/ o.raised THEN o
    ELSE first_pass(Tail(code), optimize_instr(o, Head(code)))

\* the second loop: MOV whose source is a key of temp_map
second_pass(optimized, temp_map) ==
    [i \in 1..Len(optimized) |->
        LET q == optimized[i]
        IN  IF q.op = "MOV" /\ IsStr(q.a1) /\ q.a1.s \in DOMAIN temp_map
            THEN Quad("MOV", temp_map[q.a1.s], None, q.res)
            ELSE q]

\* Optimizer(code).optimize(): the returned list in .code, or .raised
optimize(code) ==
    LET o == first_pass(code,
                 [optimized |-> <<>>, temp_map |-> EmptyMap, raised |-> FALSE])
    IN  [raised |-> o.raised,
         code |-> IF o.raised THEN <<>>
                  ELSE second_pass(o.optimized, o.temp_map)]

---------------------------------------------------------------------------
(* main.py: TACInterpreter.  The interpreter's fields and the chain of active
   run_func calls travel as the record
   m = [env_stack, pc_stack, params, output, return_value, stage, error,
        lost_jump, entry_depth];
   run_func's local env is the top of env_stack, its local pc the top of
   pc_stack.  A raised RuntimeError ends the run: stage "failed". *)

\* build_indices: a later LABEL / FUNC of the same name overwrites an earlier
index_of(code, op) ==
    LET at == {i \in 1..Len(code) :
                  code[i].op = op /\ IsStr(code[i].a1) /\ code[i].a1.s # ""}
    IN  [name \in {code[i].a1.s : i \in at} |->
            CHOOSE i \in at : /\ code[i].a1.s = name
                              /\ \A j \in at : code[j].a1.s = name => j <= i]

build_labels(code) == index_of(code, "LABEL")
build_functions(code) == index_of(code, "FUNC")

\* _is_string_literal
is_string_literal(val) ==
    IsStr(val) /\ Len(val.s) >= 2 /\ Char(val.s, 1) = "\""
               /\ Char(val.s, Len(val.s)) = "\""

\* (a mutant: the frames are searched oldest first)
lookup_oldest_first(stack, name) ==
    LET holders == {i \in 1..Len(stack) : name \in DOMAIN stack[i]}
    IN  IF holders = {} THEN IntObj(0)
        ELSE stack[CHOOSE i \in holders : \A j \in holders : i <= j][name]

\* for env in reversed(self.env_stack): if val in env: return env[val]
lookup(stack, name) ==
    LET holders == {i \in 1..Len(stack) : name \in DOMAIN stack[i]}
    IN  IF holders = {} THEN IntObj(0)
        ELSE stack[CHOOSE i \in holders : \A j \in holders : j <= i][name]

get_val_from_env(stack, val) ==
    IF IsNone(val) THEN IntObj(0)
    ELSE IF is_string_literal(val) THEN StrObj(SubSeq(val.s, 2, Len(val.s) - 1))
    ELSE IF IsInt(val) THEN val
    ELSE IF int_parses(val.s) THEN IntObj(int_of(val.s))
    ELSE lookup(stack, val.s)

\* (a mutant: every string is refused, numeric-looking or not)
ensure_int_strict(v) ==
    IF IsStr(v) THEN [ok |-> FALSE, n |-> 0] ELSE [ok |-> TRUE, n |-> v.n]

\* _ensure_int: .ok = FALSE when it raises RuntimeError
ensure_int(v) ==
    IF IsStr(v) THEN
        IF int_parses(v.s) THEN [ok |-> TRUE, n |-> int_of(v.s)]
        ELSE [ok |-> FALSE, n |-> 0]
    ELSE [ok |-> TRUE, n |-> v.n]

\* str(v)
py_str(v) == IF IsStr(v) THEN v.s ELSE str_of_int(v.n)

bool_int(b) == IF b THEN 1 ELSE 0

\* the result of DIV on ints
div_result(left, right) == IF right # 0 THEN floordiv(left, right) ELSE 0

\* (a mutant: LT compares with <=)
arith_inclusive(op, left, right) ==
    CASE op = "PLUS" -> left + right
      [] op = "MINUS" -> left - right
      [] op = "MUL" -> left * right
      [] op = "DIV" -> div_result(left, right)
      [] op = "GT" -> bool_int(left > right)
      [] op = "LT" -> bool_int(left <= right)
      [] op = "GE" -> bool_int(left >= right)
      [] op = "LE" -> bool_int(left <= right)
      [] op = "EQ" -> bool_int(left = right)
      [] op = "NE" -> bool_int(left # right)

\* the chain of PLUS .. LE on ints, and the int comparison of EQ and NE
arith(op, left, right) ==
    CASE op = "PLUS" -> left + right
      [] op = "MINUS" -> left - right
      [] op = "MUL" -> left * right
      [] op = "DIV" -> div_result(left, right)
      [] op = "GT" -> bool_int(left > right)
      [] op = "LT" -> bool_int(left < right)
      [] op = "GE" -> bool_int(left >= right)
      [] op = "LE" -> bool_int(left <= right)
      [] op = "EQ" -> bool_int(left = right)
      [] op = "NE" -> bool_int(left # right)

Depth(m) == Len(m.pc_stack)
CurPc(m) == m.pc_stack[Depth(m)]
CurEnv(m) == m.env_stack[Len(m.env_stack)]

raise(m) == [m EXCEPT !.stage = "failed", !.error = "RuntimeError",
                      !.pc_stack = <<>>, !.entry_depth = <<>>]

\* env[key] = val in the running function, then pc += 1
store(m, key, val) ==
    [m EXCEPT !.env_stack[Len(m.env_stack)] = MapSet(@, key, val),
              !.pc_stack[Depth(m)] = @ + 1]

advance(m) == [m EXCEPT !.pc_stack[Depth(m)] = @ + 1]

exec_MOV(m, ins) == store(m, ins.res.s, get_val_from_env(m.env_stack, ins.a1))

exec_binary(m, ins) ==
    LET left_raw == get_val_from_env(m.env_stack, ins.a1)
        right_raw == get_val_from_env(m.env_stack, ins.a2)
        left == ensure_int(left_raw)
        right == ensure_int(right_raw)
    IN  IF ins.op \in {"EQ", "NE"} /\ (IsStr(left_raw) \/ IsStr(right_raw))
        THEN store(m, ins.res.s,
                   IntObj(bool_int((py_str(left_raw) = py_str(right_raw))
                                       = (ins.op = "EQ"))))
        ELSE IF ~left.ok \/ ~right.ok THEN raise(m)
        ELSE store(m, ins.res.s, IntObj(arith(ins.op, left.n, right.n)))

exec_PARAM(m, ins) ==
    advance([m EXCEPT !.params =
                 Append(@, get_val_from_env(m.env_stack, ins.a1))])

exec_POP(m, ins) ==
    store(m, ins.res.s,
          IF "ret" \in DOMAIN CurEnv(m) THEN CurEnv(m)["ret"] ELSE IntObj(0))

exec_PRINT(m, ins) ==
    advance([m EXCEPT !.output =
                 Append(@, py_str(get_val_from_env(m.env_stack, ins.a1)))])


\* (a mutant: the last argument is never bound)
RECURSIVE bind_params_short(_, _, _, _, _)
bind_params_short(code, pc, args, param_idx, env) ==
    IF pc <= Len(code) /\ code[pc].op = "PARAM_DECL" THEN
        bind_params_short(code, pc + 1, args, param_idx + 1,
                          MapSet(env, code[pc].a1.s,
                                 IF param_idx < Len(args) THEN args[param_idx]
                                 ELSE IntObj(0)))
    ELSE [env |-> env, pc |-> pc]

\* the PARAM_DECL loop of run_func: the bound env and the pc after the block
RECURSIVE bind_params(_, _, _, _, _)
bind_params(code, pc, args, param_idx, env) ==
    IF pc <= Len(code) /\ code[pc].op = "PARAM_DECL" THEN
        bind_params(code, pc + 1, args, param_idx + 1,
                    MapSet(env, code[pc].a1.s,
                           IF param_idx <= Len(args) THEN args[param_idx]
                           ELSE IntObj(0)))
    ELSE [env |-> env, pc |-> pc]

\* (a mutant: a missing function is taken to return 0)
enter_func_default(m, code, funcs, func_name, args) ==
    IF ~(IsStr(func_name) /\ func_name.s \in DOMAIN funcs) THEN
        IF Depth(m) = 0 THEN [m EXCEPT !.stage = "done"]
        ELSE store(m, "ret", IntObj(0))
    ELSE LET b == bind_params(code, funcs[func_name.s] + 1, args, 1, EmptyMap)
         IN  [m EXCEPT !.env_stack = Append(@, b.env),
                       !.pc_stack = Append(@, b.pc),
                       !.entry_depth = Append(@, Len(m.params))]

\* run_func up to its main loop: the lookup of func_name, the binding of the
\* parameters and the push of env
enter_func(m, code, funcs, func_name, args) ==
    IF ~(IsStr(func_name) /\ func_name.s \in DOMAIN funcs) THEN raise(m)
    ELSE LET b == bind_params(code, funcs[func_name.s] + 1, args, 1, EmptyMap)
         IN  [m EXCEPT !.env_stack = Append(@, b.env),
                       !.pc_stack = Append(@, b.pc),
                       !.entry_depth = Append(@, Len(m.params))]

\* run_func returning ret_val: in the caller env["ret"] = nested_ret and
\* pc += 1; in execute, return_value = ret
leave_func(m, ret_val) ==
    LET popped == [m EXCEPT
                      !.env_stack = SubSeq(@, 1, Len(@) - 1),
                      !.pc_stack = SubSeq(@, 1, Len(@) - 1),
                      !.entry_depth = SubSeq(@, 1, Len(@) - 1)]
    IN  IF Depth(popped) = 0
        THEN [popped EXCEPT !.stage = "done", !.return_value = ret_val]
        ELSE store(popped, "ret", ret_val)

call_argc(a2) ==
    IF IsNone(a2) THEN 0 ELSE IF IsInt(a2) THEN a2.n ELSE int_of(a2.s)

\* (a mutant: the arguments of the call are left on the param stack)
exec_CALL_keeps_params(m, ins, code, funcs) ==
    LET argc == call_argc(ins.a2)
        taken == Min(argc, Len(m.params))
        args_for_call == SubSeq(m.params, Len(m.params) - taken + 1,
                                Len(m.params))
    IN  enter_func(m, code, funcs, ins.a1, args_for_call)

exec_CALL(m, ins, code, funcs) ==
    LET argc == call_argc(ins.a2)
        taken == Min(argc, Len(m.params))
        args_for_call == SubSeq(m.params, Len(m.params) - taken + 1,
                                Len(m.params))
        rest == SubSeq(m.params, 1, Len(m.params) - taken)
    IN  enter_func([m EXCEPT !.params = rest], code, funcs, ins.a1,
                   args_for_call)

exec_RET(m, ins) == leave_func(m, get_val_from_env(m.env_stack, ins.a1))

\* (a mutant: a function left through END_FUNC leaves its env on the stack)
exec_END_FUNC_keeps_env(m) ==
    LET popped == [m EXCEPT
                      !.pc_stack = SubSeq(@, 1, Len(@) - 1),
                      !.entry_depth = SubSeq(@, 1, Len(@) - 1)]
    IN  IF Depth(popped) = 0
        THEN [popped EXCEPT !.stage = "done", !.return_value = IntObj(0)]
        ELSE store(popped, "ret", IntObj(0))

\* END_FUNC, or pc past the end of the list: ret_val is still 0
exec_END_FUNC(m) == leave_func(m, IntObj(0))

\* pc = self.labels.get(target, pc); continue
jump(m, labs, target) ==
    IF IsStr(target) /\ target.s \in DOMAIN labs
    THEN [m EXCEPT !.pc_stack[Depth(m)] = labs[target.s]]
    ELSE [m EXCEPT !.lost_jump = TRUE]

exec_IFZ_GOTO(m, ins, labs) ==
    LET cond_int == ensure_int(get_val_from_env(m.env_stack, ins.a1))
    IN  IF ~cond_int.ok THEN raise(m)
        ELSE IF cond_int.n = 0 THEN jump(m, labs, ins.res)
        ELSE advance(m)

exec_GOTO(m, ins, labs) == jump(m, labs, ins.a1)

AtEnd(m, code) == CurPc(m) > Len(code) \/ code[CurPc(m)].op = "END_FUNC"

\* one iteration of run_func's main loop in the innermost active call
step(m, code, labs, funcs) ==
    IF AtEnd(m, code) THEN exec_END_FUNC(m)
    ELSE LET ins == code[CurPc(m)]
         IN  CASE ins.op = "MOV" -> exec_MOV(m, ins)
               [] ins.op \in BinaryOps -> exec_binary(m, ins)
               [] ins.op = "PARAM" -> exec_PARAM(m, ins)
               [] ins.op = "CALL" -> exec_CALL(m, ins, code, funcs)
               [] ins.op = "POP" -> exec_POP(m, ins)
               [] ins.op = "PRINT" -> exec_PRINT(m, ins)
               [] ins.op = "IFZ_GOTO" -> exec_IFZ_GOTO(m, ins, labs)
               [] ins.op = "GOTO" -> exec_GOTO(m, ins, labs)
               [] ins.op = "RET" -> exec_RET(m, ins)
               [] OTHER -> advance(m)

NewInterpreter ==
    [env_stack |-> <<>>, pc_stack |-> <<>>, params |-> <<>>, output |-> <<>>,
     return_value |-> IntObj(0), stage |-> "optimized", error |-> "",
     lost_jump |-> FALSE, entry_depth |-> <<>>]

\* execute() up to the first instruction of main
execute(m, code) ==
    IF "main" \notin DOMAIN build_functions(code) THEN raise(m)
    ELSE enter_func([m EXCEPT !.stage = "running"], code,
                    build_functions(code), StrObj("main"), <<>>)

\* execute() carried on for at most fuel iterations of the main loops
RECURSIVE run(_, _, _, _, _)
run(m, code, labs, funcs, fuel) ==
    IF m.stage # "running" \/ fuel = 0 THEN m
    ELSE run(step(m, code, labs, funcs), code, labs, funcs, fuel - 1)

\* TACInterpreter(code).execute(), cut off after MaxSteps iterations
interpret(code) ==
    run(execute(NewInterpreter, code), code, build_labels(code),
        build_functions(code), MaxSteps)

---------------------------------------------------------------------------
(* The source files the pipeline is run on, as the trees the parser builds *)

Lit(n) == Number(n)
Main(body) == Function("main", <<>>, body)

\* int main(){ return 2+3*4; }
ArithReturn ==
    Program(<<Main(<<Return(BinOp(Lit(2), "PLUS",
                                  BinOp(Lit(3), "MUL", Lit(4))))>>)>>)

\* int main(){ int x = 2+3*4; return x; }
ArithAssign ==
    Program(<<Main(<<Declaration("x", BinOp(Lit(2), "PLUS",
                                            BinOp(Lit(3), "MUL", Lit(4)))),
                     Return(Var("x"))>>)>>)

\* int main(){ print("hello"); if("hi"=="hi"){ print(1); } else { print(0); }
\*             return 0; }
StringEq ==
    Program(<<Main(<<PrintStmt(String("hello")),
                     If(BinOp(String("hi"), "EQ", String("hi")),
                        <<PrintStmt(Lit(1))>>, <<PrintStmt(Lit(0))>>),
                     Return(Lit(0))>>)>>)

\* int main(){ int x; if(1<2){ int x; x=7; } return x; }
Shadow ==
    Program(<<Main(<<Declaration("x", NoValue),
                     If(BinOp(Lit(1), "LT", Lit(2)),
                        <<Declaration("x", NoValue), Assignment("x", Lit(7))>>,
                        <<>>),
                     Return(Var("x"))>>)>>)

\* int fact(int n){ if(n==0){ return 1; } return n*fact(n-1); }
\* int main(){ return fact(N); }
Fact(N) ==
    Program(<<Function("fact", <<"n">>,
                <<If(BinOp(Var("n"), "EQ", Lit(0)), <<Return(Lit(1))>>, <<>>),
                  Return(BinOp(Var("n"), "MUL",
                      FuncCall("fact", <<BinOp(Var("n"), "MINUS", Lit(1))>>)))>>),
              Main(<<Return(FuncCall("fact", <<Lit(N)>>))>>)>>)

\* int main(){ int i=0; while(i<K){ print(i); i=i+1; } return i; }
Loop(K) ==
    Program(<<Main(<<Declaration("i", Lit(0)),
                     While(BinOp(Var("i"), "LT", Lit(K)),
                           <<PrintStmt(Var("i")),
                             Assignment("i", BinOp(Var("i"), "PLUS", Lit(1)))>>),
                     Return(Var("i"))>>)>>)

\* int main(){ print(A/0); return A/0; }
DivZeroLiteral(A) ==
    Program(<<Main(<<PrintStmt(BinOp(Lit(A), "DIV", Lit(0))),
                     Return(BinOp(Lit(A), "DIV", Lit(0)))>>)>>)

\* int main(){ int v = A; print(v/0); return v/0; }
DivZeroVariable(v, A) ==
    Program(<<Main(<<Declaration(v, Lit(A)),
                     PrintStmt(BinOp(Var(v), "DIV", Lit(0))),
                     Return(BinOp(Var(v), "DIV", Lit(0)))>>)>>)

\* a literal n, or (0-n) when negative is set
Signed(negative, n) == IF negative THEN BinOp(Lit(0), "MINUS", Lit(n)) ELSE Lit(n)

\* int main(){ return a/b; } with a = A or (0-A), b = B or (0-B)
Quotient(negA, A, negB, B) ==
    Program(<<Main(<<Return(BinOp(Signed(negA, A), "DIV",
                                  Signed(negB, B)))>>)>>)

\* int main(){ int v = 1; if(v==1){ v = 2; } else { v = 3; } return v; }
Branch(v) ==
    Program(<<Main(<<Declaration(v, Lit(1)),
                     If(BinOp(Var(v), "EQ", Lit(1)),
                        <<Assignment(v, Lit(2))>>, <<Assignment(v, Lit(3))>>),
                     Return(Var(v))>>)>>)

\* int show(int a){ print(a); } int main(){ show(A); }
Show(A) ==
    Program(<<Function("show", <<"a">>, <<PrintStmt(Var("a"))>>),
              Main(<<FuncCall("show", <<Lit(A)>>)>>)>>)

\* int main(){ int a = "s"; return a op 1; }   (or: return 1 op a;)
StrOperand(s, op, on_left) ==
    Program(<<Main(<<Declaration("a", String(s)),
                     Return(IF on_left THEN BinOp(Var("a"), op, Lit(1))
                            ELSE BinOp(Lit(1), op, Var("a")))>>)>>)

\* the contents tried for a string literal: each matches the lexer's STRING
StrValues == {"abc", "12", "-5", ""}

\* int f(){ print(7); return 1; }   (a source file without main)
NoMain ==
    Program(<<Function("f", <<>>, <<PrintStmt(Lit(7)), Return(Lit(1))>>)>>)

\* int f(){ int x; return x; } int main(){ int x = A; return f(); }
CallerShadow(A) ==
    Program(<<Function("f", <<>>, <<Declaration("x", NoValue),
                                    Return(Var("x"))>>),
              Main(<<Declaration("x", Lit(A)),
                     Return(FuncCall("f", <<>>))>>)>>)

\* int main(){ if(1){ int y = A; } if(1){ int y; print(y); } return 0; }
SiblingBlock(A) ==
    Program(<<Main(<<If(Lit(1), <<Declaration("y", Lit(A))>>, <<>>),
                     If(Lit(1), <<Declaration("y", NoValue),
                                  PrintStmt(Var("y"))>>, <<>>),
                     Return(Lit(0))>>)>>)

\* int main(){ int x; print(x); x = A; return x; }
Uninit(A) ==
    Program(<<Main(<<Declaration("x", NoValue), PrintStmt(Var("x")),
                     Assignment("x", Lit(A)), Return(Var("x"))>>)>>)

\* int g(int n){ return n; }
Identity == Function("g", <<"n">>, <<Return(Var("n"))>>)

\* int f(int a, int b){ body }  int g(int n){ return n; }
\* int main(){ return f(1, 2); }
\* g is defined after f, so every call of g in body is a forward call
FrontProgram(body) ==
    Program(<<Function("f", <<"a", "b">>, body),
              Identity,
              Main(<<Return(FuncCall("f", <<Lit(1), Lit(2)>>))>>)>>)

\* the statements tried in the body of f
FrontStmts ==
    <<Declaration("x", NoValue),
      Declaration("x", BinOp(Var("x"), "PLUS", Lit(1))),
      Declaration("t2", Lit(1)),
      Declaration("s", String("abc")),
      Assignment("x", BinOp(Var("a"), "PLUS", Lit(3))),
      Assignment("a", FuncCall("g", <<Lit(1)>>)),
      Assignment("a", String("12")),
      Assignment("y", Var("a")),
      Return(FuncCall("f", <<Lit(1), Lit(2)>>)),
      Return(FuncCall("f", <<Var("a"), FuncCall("g", <<Var("b")>>)>>)),
      Return(FuncCall("f", <<BinOp(Var("a"), "MINUS", Lit(1)), Var("b")>>)),
      Return(BinOp(Var("t2"), "PLUS", Lit(3))),
      Return(String("hi")),
      FuncCall("g", <<>>),
      FuncCall("g", <<String("hi")>>),
      PrintStmt(FuncCall("h", <<>>)),
      PrintStmt(Var("y")),
      PrintStmt(String("hi")),
      If(BinOp(Var("a"), "LT", Var("b")),
         <<Declaration("y", Lit(1))>>, <<Assignment("y", Lit(2))>>),
      If(Var("a"), <<Declaration("y", NoValue)>>, <<>>),
      If(Var("a"), <<Assignment("a", Lit(0))>>, <<Declaration("y", Var("b"))>>),
      While(BinOp(Var("a"), "LT", Lit(3)),
            <<Declaration("y", Var("a")),
              Assignment("a", BinOp(Var("a"), "PLUS", Lit(1)))>>),
      If(String("s"), <<PrintStmt(Lit(1))>>, <<>>),
      While(String("s"), <<PrintStmt(Lit(1))>>)>>

\* every body of at most MaxStmts statements of FrontStmts
FrontBodies ==
    UNION {{[i \in 1..n |-> FrontStmts[pick[i]]] :
                pick \in [1..n -> 1..Len(FrontStmts)]} : n \in 0..MaxStmts}

\* int g(int n){ return n; } int g(int n){ return n; } int main(){ return 0; }
DuplicateFunction == Program(<<Identity, Identity, Main(<<Return(Lit(0))>>)>>)

\* int h(int a, int a){ return a; } int main(){ return 0; }
DuplicateParameter ==
    Program(<<Function("h", <<"a", "a">>, <<Return(Var("a"))>>),
              Main(<<Return(Lit(0))>>)>>)

\* the blocks that declare y inside:  if(a){ int y; }   if(a){ a = 0; }
\* else{ int y = b; }   while(a < 3){ int y = a; a = a + 1; }
Blocks == {FrontStmts[20], FrontStmts[21], FrontStmts[22]}

\* int x;  <block>  x = a + 3;   (x declared before the block, used after)
OuterAfterBlock(block) ==
    FrontProgram(<<FrontStmts[1], block, FrontStmts[5]>>)

FrontSources ==
    {FrontProgram(body) : body \in FrontBodies}
    \cup {OuterAfterBlock(block) : block \in Blocks}
    \cup {DuplicateFunction, DuplicateParameter}

\* int f(int a, int b){ return a - b; } int g(int n){ return n + 1; }
\* int main(){ return f(1, g(2)); }      (or: return f(g(1), 2);)
NestedCall(inner_first) ==
    Program(<<Function("f", <<"a", "b">>,
                       <<Return(BinOp(Var("a"), "MINUS", Var("b")))>>),
              Function("g", <<"n">>,
                       <<Return(BinOp(Var("n"), "PLUS", Lit(1)))>>),
              Main(<<Return(FuncCall("f",
                         IF inner_first
                         THEN <<FuncCall("g", <<Lit(1)>>), Lit(2)>>
                         ELSE <<Lit(1), FuncCall("g", <<Lit(2)>>)>>))>>)>>)

\* int g(){ int x; return x; } int f(){ int x = 2; print(x); return g(); }
\* int main(){ int x = 1; return f(); }
Deep ==
    Program(<<Function("g", <<>>, <<Declaration("x", NoValue),
                                    Return(Var("x"))>>),
              Function("f", <<>>, <<Declaration("x", Lit(2)),
                                    PrintStmt(Var("x")),
                                    Return(FuncCall("g", <<>>))>>),
              Main(<<Declaration("x", Lit(1)),
                     Return(FuncCall("f", <<>>))>>)>>)

\* int g(int n){ return n; } int main(){ int v = 5; int y = g(1); return v; }
KeptAcrossCall(v) ==
    Program(<<Identity,
              Main(<<Declaration(v, Lit(5)),
                     Declaration("y", FuncCall("g", <<Lit(1)>>)),
                     Return(Var(v))>>)>>)

\* the identifiers tried for a variable: each matches the lexer's ID rule
VarNames == {"x", "a", "t", "total"}

NoSource == Program(<<>>)

---------------------------------------------------------------------------
(* TAC lists handed to TACInterpreter directly *)

\* FUNC main; MOV c,_,c0; IFZ_GOTO c0,_,target (or GOTO target); PRINT 7;
\* LABEL L1; RET 1; END_FUNC main
JumpTac(conditional, c, target) ==
    <<Quad("FUNC", StrObj("main"), None, None),
      Quad("MOV", IntObj(c), None, StrObj("c0")),
      IF conditional
      THEN Quad("IFZ_GOTO", StrObj("c0"), None, StrObj(target))
      ELSE Quad("GOTO", StrObj(target), None, None),
      Quad("PRINT", IntObj(7), None, None),
      Quad("LABEL", StrObj("L1"), None, None),
      Quad("RET", IntObj(1), None, None),
      Quad("END_FUNC", StrObj("main"), None, None)>>

JumpTargets == {"L1", "L9"}

\* FUNC main; PRINT 7; PARAM 1; CALL callee,1; POP t1; RET t1; END_FUNC main;
\* FUNC g; PARAM_DECL n; RET n; END_FUNC g
CallTac(callee) ==
    <<Quad("FUNC", StrObj("main"), None, None),
      Quad("PRINT", IntObj(7), None, None),
      Quad("PARAM", IntObj(1), None, None),
      Quad("CALL", StrObj(callee), IntObj(1), None),
      Quad("POP", None, None, StrObj("t1")),
      Quad("RET", StrObj("t1"), None, None),
      Quad("END_FUNC", StrObj("main"), None, None),
      Quad("FUNC", StrObj("g"), None, None),
      Quad("PARAM_DECL", StrObj("n"), None, None),
      Quad("RET", StrObj("n"), None, None),
      Quad("END_FUNC", StrObj("g"), None, None)>>

Callees == {"g", "h"}

\* FUNC name; PRINT 7; RET 1; END_FUNC name
OneFuncTac(name) ==
    <<Quad("FUNC", StrObj(name), None, None),
      Quad("PRINT", IntObj(7), None, None),
      Quad("RET", IntObj(1), None, None),
      Quad("END_FUNC", StrObj(name), None, None)>>

EntryNames == {"main", "f"}

\* FUNC main; MOV 1,_,7; PRINT 7; PRINT 7; RET 7; END_FUNC main, the operand
\* of the first PRINT and of RET being the text '7', that of the second PRINT
\* the int 7; the MOV leaves a binding under the name '7' in the frame
DigitNameTac ==
    <<Quad("FUNC", StrObj("main"), None, None),
      Quad("MOV", IntObj(1), None, StrObj("7")),
      Quad("PRINT", StrObj("7"), None, None),
      Quad("PRINT", IntObj(7), None, None),
      Quad("RET", StrObj("7"), None, None),
      Quad("END_FUNC", StrObj("main"), None, None)>>

\* the TAC lists the interpreter is started on without a compilation
DirectTacs ==
    {JumpTac(conditional, c, target) :
         conditional \in BOOLEAN, c \in 0..1, target \in JumpTargets}
    \cup {CallTac(callee) : callee \in Callees}
    \cup {OneFuncTac(name) : name \in EntryNames}
    \cup {DigitNameTac}

---------------------------------------------------------------------------
(* TAC lists handed to Optimizer directly: every list of at most MaxLen
   instructions of OptAlphabet, whose integer literals are in text form *)

OptAlphabet ==
    <<Quad("MOV", StrObj("5"), None, StrObj("t1")),
      Quad("MOV", StrObj("0"), None, StrObj("t1")),
      Quad("MOV", IntObj(4), None, StrObj("t2")),
      Quad("MOV", StrObj("t1"), None, StrObj("x")),
      Quad("MOV", StrObj("t2"), None, StrObj("t1")),
      Quad("PLUS", StrObj("t1"), StrObj("3"), StrObj("t2")),
      Quad("MINUS", StrObj("2"), StrObj("t1"), StrObj("x")),
      Quad("DIV", StrObj("7"), StrObj("t1"), StrObj("t2")),
      Quad("LT", StrObj("t1"), StrObj("t2"), StrObj("x")),
      Quad("PARAM", StrObj("t1"), None, None),
      Quad("RET", StrObj("t2"), None, None)>>

---------------------------------------------------------------------------
(* The state machine: compile_source, stage by stage, then the interpreter's
   main loop, one instruction per step *)

Sources ==
    {ArithReturn, ArithAssign, StringEq, Shadow}
    \cup {Fact(N) : N \in 0..MaxN}
    \cup {Loop(K) : K \in 0..MaxK}
    \cup {DivZeroLiteral(A) : A \in 0..MaxA}
    \cup {DivZeroVariable(v, A) : v \in VarNames, A \in 0..MaxA}
    \cup {Quotient(negA, A, negB, B) :
              negA \in BOOLEAN, A \in 0..MaxA, negB \in BOOLEAN, B \in 1..MaxB}
    \cup {Branch(v) : v \in VarNames}
    \cup {Show(A) : A \in 0..1}
    \cup {StrOperand(s, op, on_left) :
              s \in StrValues, op \in BinaryOps, on_left \in BOOLEAN}
    \cup {NoMain}
    \cup {CallerShadow(A) : A \in 0..1}
    \cup {SiblingBlock(A) : A \in 0..1}
    \cup {Uninit(A) : A \in 0..1}
    \cup {NestedCall(inner_first) : inner_first \in BOOLEAN}
    \cup {Deep}
    \cup {KeptAcrossCall(v) : v \in VarNames \cup {"ret"}}

Idle ==
    /\ labels = EmptyMap
    /\ functions = EmptyMap
    /\ env_stack = <<>>
    /\ pc_stack = <<>>
    /\ params = <<>>
    /\ output = <<>>
    /\ return_value = IntObj(0)
    /\ error = ""
    /\ lost_jump = FALSE
    /\ entry_depth = <<>>

\* compile_source on a source file, or TACInterpreter on a TAC list
Init ==
    /\ Idle
    /\ \/ /\ source \in Sources
          /\ stage = "parsed"
          /\ tac = <<>>
       \/ /\ source = NoSource
          /\ stage = "optimized"
          /\ tac \in DirectTacs

\* Optimizer on a TAC list
InitOpt ==
    /\ Idle
    /\ source = NoSource
    /\ stage = "generated"
    /\ \E n \in 0..MaxLen :
           \E pick \in [1..n -> 1..Len(OptAlphabet)] :
               tac = [i \in 1..n |-> OptAlphabet[pick[i]]]

InterpreterVars ==
    <<labels, functions, env_stack, pc_stack, params, output, return_value,
      lost_jump, entry_depth>>

Analyze ==
    /\ stage = "parsed"
    /\ IF analyze(source)
       THEN stage' = "analyzed" /\ error' = error
       ELSE stage' = "failed" /\ error' = "SemanticError"
    /\ UNCHANGED <<source, tac, InterpreterVars>>

Generate ==
    /\ stage = "analyzed"
    /\ tac' = generate(source)
    /\ stage' = "generated"
    /\ UNCHANGED <<source, error, InterpreterVars>>

Optimize ==
    /\ stage = "generated"
    /\ LET r == optimize(tac)
       IN  IF r.raised
           THEN stage' = "failed" /\ error' = "ZeroDivisionError" /\ tac' = tac
           ELSE stage' = "optimized" /\ error' = error /\ tac' = r.code
    /\ UNCHANGED <<source, InterpreterVars>>

\* the interpreter's fields and call chain as one record, and back
Machine ==
    [env_stack |-> env_stack, pc_stack |-> pc_stack, params |-> params,
     output |-> output, return_value |-> return_value, stage |-> stage,
     error |-> error, lost_jump |-> lost_jump, entry_depth |-> entry_depth]

Becomes(m) ==
    /\ env_stack' = m.env_stack
    /\ pc_stack' = m.pc_stack
    /\ params' = m.params
    /\ output' = m.output
    /\ return_value' = m.return_value
    /\ stage' = m.stage
    /\ error' = m.error
    /\ lost_jump' = m.lost_jump
    /\ entry_depth' = m.entry_depth

Execute ==
    /\ stage = "optimized"
    /\ labels' = build_labels(tac)
    /\ functions' = build_functions(tac)
    /\ Becomes(execute(Machine, tac))
    /\ UNCHANGED <<source, tac>>

Running == stage = "running"
Fetching(ops) ==
    Running /\ ~AtEnd(Machine, tac) /\ tac[CurPc(Machine)].op \in ops
Current == tac[CurPc(Machine)]
Kept == UNCHANGED <<source, tac, labels, functions>>

ExecMOV == Fetching({"MOV"}) /\ Becomes(exec_MOV(Machine, Current)) /\ Kept
ExecBinary ==
    Fetching(BinaryOps) /\ Becomes(exec_binary(Machine, Current)) /\ Kept
ExecPARAM == Fetching({"PARAM"}) /\ Becomes(exec_PARAM(Machine, Current)) /\ Kept
ExecCALL ==
    /\ Fetching({"CALL"})
    /\ Becomes(exec_CALL(Machine, Current, tac, functions))
    /\ Kept
ExecPOP == Fetching({"POP"}) /\ Becomes(exec_POP(Machine, Current)) /\ Kept
ExecPRINT == Fetching({"PRINT"}) /\ Becomes(exec_PRINT(Machine, Current)) /\ Kept
ExecIFZ_GOTO ==
    /\ Fetching({"IFZ_GOTO"})
    /\ Becomes(exec_IFZ_GOTO(Machine, Current, labels))
    /\ Kept
ExecGOTO ==
    Fetching({"GOTO"}) /\ Becomes(exec_GOTO(Machine, Current, labels)) /\ Kept
ExecLABEL == Fetching({"LABEL"}) /\ Becomes(advance(Machine)) /\ Kept
ExecRET == Fetching({"RET"}) /\ Becomes(exec_RET(Machine, Current)) /\ Kept
ExecEND_FUNC ==
    Running /\ AtEnd(Machine, tac) /\ Becomes(exec_END_FUNC(Machine)) /\ Kept

Next ==
    \/ Analyze
    \/ Generate
    \/ Optimize
    \/ Execute
    \/ ExecMOV
    \/ ExecBinary
    \/ ExecPARAM
    \/ ExecCALL
    \/ ExecPOP
    \/ ExecPRINT
    \/ ExecIFZ_GOTO
    \/ ExecGOTO
    \/ ExecLABEL
    \/ ExecRET
    \/ ExecEND_FUNC

Spec == Init /\ [][Next]_vars

\* one iteration of the main loop of the innermost run_func
RunStep ==
    \/ ExecMOV
    \/ ExecBinary
    \/ ExecPARAM
    \/ ExecCALL
    \/ ExecPOP
    \/ ExecPRINT
    \/ ExecIFZ_GOTO
    \/ ExecGOTO
    \/ ExecLABEL
    \/ ExecRET
    \/ ExecEND_FUNC

\* the interpreter is sequential code: while its loop can iterate, it does
FairSpec == Init /\ [][Next]_vars /\ WF_vars(RunStep)

NextOpt == Optimize

SpecOpt == InitOpt /\ [][NextOpt]_vars

---------------------------------------------------------------------------
\* the front end alone: SemanticAnalyzer, then CodeGenerator
InitFront ==
    /\ Idle
    /\ source \in FrontSources
    /\ stage = "parsed"
    /\ tac = <<>>

NextFront == Analyze \/ Generate

SpecFront == InitFront /\ [][NextFront]_vars

---------------------------------------------------------------------------

(* Vocabulary of the properties *)

FromSource == Len(source.functions) > 0
Finished == stage \in {"done", "failed"}

RECURSIVE declared_in(_)
declared_in(stmts) ==
    IF Len(stmts) = 0 THEN {}
    ELSE LET st == Head(stmts)
         IN  (CASE st.type = "Declaration" -> {st.var_name}
                [] st.type = "If" ->
                      declared_in(st.then_body) \cup declared_in(st.else_body)
                [] st.type = "While" -> declared_in(st.body)
                [] OTHER -> {})
             \cup declared_in(Tail(stmts))

\* the variables and parameters the program's functions declare
UserVariables(prog) ==
    UNION {declared_in(prog.functions[i].body)
               \cup {prog.functions[i].params[j] :
                         j \in 1..Len(prog.functions[i].params)} :
           i \in 1..Len(prog.functions)}

MovsInto(code, name) ==
    Cardinality({i \in 1..Len(code) :
                     code[i].op = "MOV" /\ code[i].res = StrObj(name)})

Arithmetic == {"PLUS", "MINUS", "MUL", "DIV"}
CountOps(code, ops) == Cardinality({i \in 1..Len(code) : code[i].op \in ops})

RECURSIVE Factorial(_)
Factorial(n) == IF n = 0 THEN 1 ELSE n * Factorial(n - 1)

\* the lines "0", "1", ..., "K-1"
Counting(K) == [i \in 1..K |-> ToString(i - 1)]

---------------------------------------------------------------------------
(* C1: for every program the analyzer accepts, whatever its identifiers, the
   optimized TAC prints the same lines and exits with the same value as the
   TAC the code generator produced, and the optimizer keeps every MOV into a
   user variable. *)
C1_OptimizerPreservesSemantics ==
    FromSource =>
        /\ stage = "optimized" =>
               \A v \in UserVariables(source) :
                   MovsInto(tac, v) = MovsInto(generate(source), v)
        /\ stage = "done" =>
               LET unoptimized == interpret(generate(source))
               IN  unoptimized.stage = "done" =>
                       /\ output = unoptimized.output
                       /\ return_value = unoptimized.return_value

(* C2: an arithmetic expression over integer literals leaves no PLUS, MINUS,
   MUL or DIV and at most one MOV in the optimizer's output. *)
C2_ConstantFoldingLaw ==
    (source \in {ArithReturn, ArithAssign} /\ stage = "optimized") =>
        /\ CountOps(tac, Arithmetic) = 0
        /\ CountOps(tac, {"MOV"}) <= 1

(* C3: optimizing an already optimized TAC list returns it unchanged. *)
C3_OptimizeIdempotent ==
    stage = "optimized" =>
        LET again == optimize(tac)
        IN  ~again.raised /\ again.code = tac

\* a first run that folded 2 - 5 and wrote the literal into x
C3_Witness ==
    /\ stage = "optimized"
    /\ \E i \in 1..Len(tac) :
           tac[i] = Quad("MOV", StrObj("-3"), None, StrObj("x"))

(* C4: the program comparing "hi" == "hi" passes semantic analysis, prints
   hello and 1, and exits with 0. *)
C4_StringEquality ==
    source = StringEq =>
        /\ error # "SemanticError"
        /\ Finished =>
               /\ stage = "done"
               /\ output = <<"hello", "1">>
               /\ return_value = IntObj(0)

(* C5: the program redeclaring x inside the if body is accepted by the
   analyzer and exits with 0, the outer x being untouched by x = 7. *)
C5_BlockScoping ==
    source = Shadow =>
        /\ error # "SemanticError"
        /\ Finished => stage = "done" /\ return_value = IntObj(0)

(* C6: fact(N) run through the optimizing pipeline prints nothing and exits
   with N!; every activation of fact keeps its own n and its own temporaries
   while the calls nested in it run and after they return. *)
C6_RecursiveFactorial ==
    \A N \in 0..MaxN :
        source = Fact(N) =>
            /\ stage # "failed"
            /\ stage = "done" =>
                   output = <<>> /\ return_value = IntObj(Factorial(N))
            /\ \A i \in 2..Len(env_stack) :
                   LET env == env_stack[i]
                       n == N - (i - 2)
                   IN  /\ "n" \in DOMAIN env /\ env["n"] = IntObj(n)
                       /\ "t5" \in DOMAIN env => env["t5"] = IntObj(n - 1)
                       /\ "t6" \in DOMAIN env =>
                              env["t6"] = IntObj(Factorial(n - 1))

\* fact(MaxN) has returned into main after MaxN nested calls
C6_Witness ==
    /\ source = Fact(MaxN)
    /\ stage = "done"
    /\ return_value = IntObj(Factorial(MaxN))

(* C7: the while program over i < K, optimized and interpreted, terminates
   (once the interpreter runs it, main returns) having printed 0 .. K-1 in
   order, and exits with K. *)
C7_WhileLoop ==
    /\ [](\A K \in 0..MaxK :
              (source = Loop(K) /\ Finished) =>
                  /\ stage = "done"
                  /\ output = Counting(K)
                  /\ return_value = IntObj(K))
    /\ (stage = "running" /\ \E K \in 0..MaxK : source = Loop(K))
           ~> (stage = "done")

\* the loop of K = MaxK has run its body MaxK times and main has returned
C7_Witness ==
    /\ source = Loop(MaxK)
    /\ stage = "done"
    /\ Len(output) = MaxK
    /\ MaxK > 0

IsDivZero ==
    \/ \E A \in 0..MaxA : source = DivZeroLiteral(A)
    \/ \E v \in VarNames, A \in 0..MaxA : source = DivZeroVariable(v, A)

(* C8: for a/0 with a an integer literal or a variable holding an integer, no
   stage of the pipeline raises, and the DIV yields 0 (printed and returned). *)
C8_DivisionByZero ==
    IsDivZero =>
        /\ stage # "failed"
        /\ stage = "done" => output = <<"0">> /\ return_value = IntObj(0)

\* a/0 with a variable a = MaxA has been printed and returned
C8_Witness ==
    /\ source = DivZeroVariable("a", MaxA)
    /\ stage = "done"
    /\ output = <<"0">>

(* C9: DIV on integers a, b with b # 0, either of them possibly negative,
   yields the quotient rounded toward zero. *)
C9_TruncatedDivision ==
    \A negA, negB \in BOOLEAN, A \in 0..MaxA, B \in 1..MaxB :
        (source = Quotient(negA, A, negB, B) /\ stage = "done") =>
            return_value =
                IntObj(truncdiv(IF negA THEN 0 - A ELSE A,
                                IF negB THEN 0 - B ELSE B))

(* C10: once a GOTO, or an IFZ_GOTO whose condition is 0, names a label that
   no LABEL instruction defines, execution halts with a RuntimeError. *)
C10_UndefinedLabelIsFatal ==
    lost_jump => stage = "failed" /\ error = "RuntimeError"

---------------------------------------------------------------------------
\* the runtime values of the two operands of the instruction being fetched
Operands ==
    {get_val_from_env(env_stack, Current.a1),
     get_val_from_env(env_stack, Current.a2)}

RaisedRuntimeError == stage = "failed" /\ error = "RuntimeError"

(* C11 (as stated): executing PLUS, MINUS, MUL, DIV, GT, LT, GE or LE with an
   operand whose runtime value is a string raises a RuntimeError, for every
   string value, strings of digits included. *)
C11_StrictOpsRejectStrings ==
    [][(Fetching(StrictOps) /\ \E v \in Operands : IsStr(v))
           => RaisedRuntimeError']_vars

(* C11 (amended): executing a strict-integer operation with a string operand
   raises a RuntimeError exactly when int() cannot parse one of its string
   operands; a numeric-looking string is converted and the operation yields
   its integer result. *)
C11_StrictOpsRejectNonNumericStrings ==
    [][(Fetching(StrictOps) /\ \E v \in Operands : IsStr(v))
           => (RaisedRuntimeError'
                   <=> \E v \in Operands : IsStr(v) /\ ~int_parses(v.s))]_vars

\* 1 < a with a = "abc" has raised
C11_Witness ==
    /\ source = StrOperand("abc", "LT", FALSE)
    /\ RaisedRuntimeError
    /\ Len(env_stack) = 1 /\ env_stack[1]["a"] = StrObj("abc")

---------------------------------------------------------------------------
HasMain(code) == "main" \in DOMAIN build_functions(code)

(* C12: execute() on a TAC with no FUNC main raises a RuntimeError before any
   instruction is executed (no output, no frame pushed), and a CALL f, n
   where f has no FUNC instruction raises a RuntimeError instead of returning
   a value (nothing is stored, no frame is pushed). *)
C12_MissingFunctionIsFatal ==
    [][/\ (stage = "optimized" /\ ~HasMain(tac))
              => /\ RaisedRuntimeError'
                 /\ output' = <<>>
                 /\ env_stack' = <<>>
       /\ (Fetching({"CALL"}) /\ Current.a1.s \notin DOMAIN functions)
              => /\ RaisedRuntimeError'
                 /\ env_stack' = env_stack
                 /\ output' = output
                 /\ return_value' = return_value]_vars

\* the source file without main has been compiled and execute() has raised
C12_Witness ==
    /\ source = NoMain
    /\ ~HasMain(tac)
    /\ RaisedRuntimeError
    /\ output = <<>> /\ env_stack = <<>>

\* CALL h, 1 of the TAC that defines no h has raised, after PRINT 7
C12_WitnessCall ==
    /\ tac = CallTac("h")
    /\ RaisedRuntimeError
    /\ output = <<"7">> /\ params = <<>>

---------------------------------------------------------------------------
(* C13: a variable declared without an initializer produces no TAC
   instruction and reads as 0 until the first assignment to it in that
   activation, whatever the calling context: when the caller's frame holds a
   variable of the same name, when an earlier sibling block declared and
   assigned the same name, and in the plain case. *)
C13_ImplicitZeroInit ==
    \A A \in 0..1 :
        /\ (source = CallerShadow(A) /\ stage \notin {"parsed", "analyzed"})
               => /\ stage # "failed"
                  /\ MovsInto(tac, "x") = 1
                  /\ stage = "done" => return_value = IntObj(0)
        /\ (source = SiblingBlock(A) /\ stage \notin {"parsed", "analyzed"})
               => /\ stage # "failed"
                  /\ MovsInto(tac, "y") = 1
                  /\ stage = "done" => output = <<"0">>
        /\ (source = Uninit(A) /\ stage \notin {"parsed", "analyzed"})
               => /\ stage # "failed"
                  /\ MovsInto(tac, "x") = 1
                  /\ stage = "done" => output = <<"0">>
                                       /\ return_value = IntObj(A)

---------------------------------------------------------------------------
\* the names new_temp has handed out while prog was lowered
Temps(prog) ==
    {"t" \o str_of_int(i) :
         i \in 1..generate_functions(prog.functions, NewGenerator).temp_count}

\* the instructions of code whose result operand is name
WritesOf(code, name) == {i \in 1..Len(code) : code[i].res = StrObj(name)}

\* the instructions of code that write a variable or parameter of prog: the
\* MOV of a declaration or assignment, and the PARAM_DECL of a parameter
UserWrites(code, prog) ==
    {i \in 1..Len(code) :
         \/ code[i].op = "MOV" /\ code[i].res.s \in UserVariables(prog)
         \/ code[i].op = "PARAM_DECL"}

UserWriteTarget(ins) == IF ins.op = "MOV" THEN ins.res.s ELSE ins.a1.s

(* C14: in the TAC generated for a program the analyzer accepted, every
   temporary t1, t2, ... produced by new_temp is the result operand of
   exactly one instruction, and no write of a user variable targets a name
   that is also a temporary. *)
C14_TemporariesWrittenOnce ==
    stage = "generated" =>
        /\ \A t \in Temps(source) : Cardinality(WritesOf(tac, t)) = 1
        /\ \A i \in UserWrites(tac, source) :
               UserWriteTarget(tac[i]) \notin Temps(source)

---------------------------------------------------------------------------
(* The FuncCall nodes of a program in the order generate emits their CALL:
   arguments before the call they belong to, left operand before right,
   condition before body, then-body before else-body. *)
RECURSIVE calls_in_expression(_)
RECURSIVE calls_in_args(_)
RECURSIVE calls_in_body(_)

calls_in_args(args) ==
    IF Len(args) = 0 THEN <<>>
    ELSE calls_in_expression(Head(args)) \o calls_in_args(Tail(args))

calls_in_expression(expr) ==
    CASE expr.type = "BinOp" ->
            calls_in_expression(expr.left) \o calls_in_expression(expr.right)
      [] expr.type = "FuncCall" -> calls_in_args(expr.args) \o <<expr>>
      [] OTHER -> <<>>

calls_in_statement(stmt) ==
    CASE stmt.type \in {"Declaration", "Assignment", "Return", "Print"} ->
            calls_in_expression(stmt.value)
      [] stmt.type = "If" ->
            calls_in_expression(stmt.condition)
                \o calls_in_body(stmt.then_body) \o calls_in_body(stmt.else_body)
      [] stmt.type = "While" ->
            calls_in_expression(stmt.condition) \o calls_in_body(stmt.body)
      [] stmt.type = "FuncCall" -> calls_in_expression(stmt)

calls_in_body(stmts) ==
    IF Len(stmts) = 0 THEN <<>>
    ELSE calls_in_statement(Head(stmts)) \o calls_in_body(Tail(stmts))

RECURSIVE calls_in_functions(_)
calls_in_functions(funcs) ==
    IF Len(funcs) = 0 THEN <<>>
    ELSE calls_in_body(Head(funcs).body) \o calls_in_functions(Tail(funcs))

\* the positions of the CALL instructions of code, in program order
CallSites(code) ==
    LET at == {i \in 1..Len(code) : code[i].op = "CALL"}
    IN  [j \in 1..Cardinality(at) |->
            CHOOSE i \in at : Cardinality({k \in at : k <= i}) = j]

\* the positions of the PARAM instructions among code[1..i] that no CALL
\* among code[1..i] has taken, oldest first: the param stack, read off the
\* list (PARAM pushes one, CALL f, n takes the last n)
RECURSIVE pending(_, _)
pending(code, i) ==
    IF i = 0 THEN <<>>
    ELSE LET before == pending(code, i - 1)
         IN  CASE code[i].op = "PARAM" -> Append(before, i)
               [] code[i].op = "CALL" ->
                     SubSeq(before, 1, Len(before) - code[i].a2.n)
               [] OTHER -> before

\* the PARAM at position p pushes the value of arg, lowered just before it
ArgLowered(code, p, arg) ==
    CASE arg.type = "Var" -> code[p].a1 = StrObj(arg.name)
      [] arg.type = "Number" ->
            p > 1 /\ code[p - 1] = Quad("MOV", arg.value, None, code[p].a1)
      [] arg.type = "String" ->
            p > 1 /\ code[p - 1] =
                Quad("MOV", StrObj("\"" \o arg.value.s \o "\""), None, code[p].a1)
      [] arg.type = "BinOp" ->
            p > 1 /\ code[p - 1].op = arg.op /\ code[p - 1].res = code[p].a1
      [] arg.type = "FuncCall" ->
            /\ p > 2
            /\ code[p - 1].op = "POP" /\ code[p - 1].res = code[p].a1
            /\ code[p - 2].op = "CALL" /\ code[p - 2].a1 = StrObj(arg.name)

(* C15 (as stated): in the TAC emitted by the code generator, the n
   instructions immediately before every CALL f, n are PARAM instructions,
   whatever the arguments of the call are. *)
C15_ParamsImmediatelyBeforeCall ==
    stage = "generated" =>
        \A i \in 1..Len(tac) :
            tac[i].op = "CALL" =>
                /\ i - tac[i].a2.n >= 1
                /\ \A k \in 1..tac[i].a2.n : tac[i - k].op = "PARAM"

(* C15 (amended): every CALL f, n is preceded by exactly n PARAM
   instructions of its own, which it takes off the param stack: they push
   its arguments left to right, each PARAM directly after the instructions
   that evaluate its argument, the last PARAM immediately before the CALL. *)
C15_CallTakesItsParams ==
    stage = "generated" =>
        LET sites == CallSites(tac)
            calls == calls_in_functions(source.functions)
        IN  /\ Len(sites) = Len(calls)
            /\ \A j \in 1..Len(sites) :
                   LET i == sites[j]
                       n == tac[i].a2.n
                       before == pending(tac, i - 1)
                   IN  /\ tac[i].a1 = StrObj(calls[j].name)
                       /\ n = Len(calls[j].args)
                       /\ Len(before) >= n
                       /\ n > 0 => before[Len(before)] = i - 1
                       /\ \A k \in 1..n :
                              ArgLowered(tac, before[Len(before) - n + k],
                                         calls[j].args[k])

\* the TAC of  return f(a, g(b));  has been generated: PARAM a; PARAM b;
\* CALL g, 1; POP; PARAM; CALL f, 2
C15_Witness ==
    /\ stage = "generated"
    /\ source = FrontProgram(<<Return(FuncCall("f",
                     <<Var("a"), FuncCall("g", <<Var("b")>>)>>))>>)
    /\ \E i \in 3..Len(tac) :
           /\ tac[i].op = "CALL" /\ tac[i].a1 = StrObj("g")
           /\ tac[i - 1].op = "PARAM" /\ tac[i - 2].op = "PARAM"

(* C16: in the TAC generated for a program that passed semantic analysis,
   every function has its FUNC, every FUNC name is followed by exactly one
   END_FUNC of the same name with no FUNC in between, and the instructions
   directly after FUNC are one PARAM_DECL per formal parameter, in
   declaration order, before any other instruction. *)
C16_FunctionBlocksWellBracketed ==
    stage = "generated" =>
        /\ \A f \in 1..Len(source.functions) :
               \E i \in 1..Len(tac) :
                   tac[i].op = "FUNC" /\ tac[i].a1 = StrObj(source.functions[f].name)
        /\ \A i \in 1..Len(tac) :
               tac[i].op = "FUNC" =>
                   LET ends == {j \in 1..Len(tac) :
                                    tac[j].op = "END_FUNC" /\ tac[j].a1 = tac[i].a1}
                       ps == FunctionNamed(source, tac[i].a1.s).params
                   IN  /\ Cardinality(ends) = 1
                       /\ \A j \in ends :
                              /\ j > i
                              /\ \A k \in (i + 1)..(j - 1) : tac[k].op # "FUNC"
                       /\ i + Len(ps) < Len(tac)
                       /\ \A k \in 1..Len(ps) :
                              tac[i + k] = Quad("PARAM_DECL", StrObj(ps[k]), None, None)
                       /\ tac[i + Len(ps) + 1].op # "PARAM_DECL"

\* the TAC of a three-function program has been generated, f's block opening
\* with its two parameters and closing before g's FUNC
C16_Witness ==
    /\ stage = "generated"
    /\ Len(source.functions) = 3
    /\ \E i \in 1..Len(tac) : \E j \in 1..Len(tac) :
           /\ i + 2 < j
           /\ tac[i] = Quad("FUNC", StrObj("f"), None, None)
           /\ tac[i + 1] = Quad("PARAM_DECL", StrObj("a"), None, None)
           /\ tac[i + 2] = Quad("PARAM_DECL", StrObj("b"), None, None)
           /\ tac[j] = Quad("END_FUNC", StrObj("f"), None, None)
           /\ tac[j + 1] = Quad("FUNC", StrObj("g"), None, None)

---------------------------------------------------------------------------
\* the identifiers an expression reads
RECURSIVE reads_of(_)
RECURSIVE reads_of_args(_)

reads_of_args(args) ==
    IF Len(args) = 0 THEN {}
    ELSE reads_of(Head(args)) \cup reads_of_args(Tail(args))

reads_of(expr) ==
    CASE expr.type = "Var" -> {expr.name}
      [] expr.type = "BinOp" -> reads_of(expr.left) \cup reads_of(expr.right)
      [] expr.type = "FuncCall" -> reads_of_args(expr.args)
      [] OTHER -> {}

(* Every identifier read, and every assignment target, has a declaration
   (or is a parameter) textually earlier in the function; seen is the set of
   names declared so far.  A declaration's name counts as declared only
   after its initializer.  Blocks are not told apart here. *)
RECURSIVE declared_before_use(_, _)
declared_before_use(stmts, seen) ==
    IF Len(stmts) = 0 THEN [ok |-> TRUE, seen |-> seen]
    ELSE LET stmt == Head(stmts)
             r == CASE stmt.type = "Declaration" ->
                         [ok |-> reads_of(stmt.value) \subseteq seen,
                          seen |-> seen \cup {stmt.var_name}]
                    [] stmt.type = "Assignment" ->
                         [ok |-> /\ stmt.var_name \in seen
                                 /\ reads_of(stmt.value) \subseteq seen,
                          seen |-> seen]
                    [] stmt.type \in {"Return", "Print"} ->
                         [ok |-> reads_of(stmt.value) \subseteq seen,
                          seen |-> seen]
                    [] stmt.type = "If" ->
                         LET t == declared_before_use(stmt.then_body, seen)
                             e == declared_before_use(stmt.else_body, t.seen)
                         IN  [ok |-> /\ reads_of(stmt.condition) \subseteq seen
                                     /\ t.ok /\ e.ok,
                              seen |-> e.seen]
                    [] stmt.type = "While" ->
                         LET b == declared_before_use(stmt.body, seen)
                         IN  [ok |-> /\ reads_of(stmt.condition) \subseteq seen
                                     /\ b.ok,
                              seen |-> b.seen]
                    [] stmt.type = "FuncCall" ->
                         [ok |-> reads_of(stmt) \subseteq seen, seen |-> seen]
             rest == declared_before_use(Tail(stmts), r.seen)
         IN  [ok |-> r.ok /\ rest.ok, seen |-> rest.seen]

(* C17: a program the semantic analyzer accepts reads no identifier, and
   assigns to no identifier, that was not declared as a variable or
   parameter earlier in the function; in particular not in the initializer
   of the identifier's own declaration (int x = x + 1;). *)
C17_UseRequiresPriorDeclaration ==
    stage = "analyzed" =>
        \A f \in 1..Len(source.functions) :
            declared_before_use(source.functions[f].body,
                {source.functions[f].params[k] :
                     k \in 1..Len(source.functions[f].params)}).ok

---------------------------------------------------------------------------
(* Block-scoped visibility: every identifier read or assigned is a
   parameter, or declared earlier in the same body or in an enclosing one;
   a declaration made inside a then-, else- or while-body is visible only
   up to the end of that body.  A declaration's own initializer sees the
   name. *)
RECURSIVE block_scoped(_, _)
block_scoped(stmts, visible) ==
    IF Len(stmts) = 0 THEN TRUE
    ELSE LET stmt == Head(stmts)
         IN  CASE stmt.type = "Declaration" ->
                    /\ reads_of(stmt.value) \subseteq visible \cup {stmt.var_name}
                    /\ block_scoped(Tail(stmts), visible \cup {stmt.var_name})
               [] stmt.type = "Assignment" ->
                    /\ stmt.var_name \in visible
                    /\ reads_of(stmt.value) \subseteq visible
                    /\ block_scoped(Tail(stmts), visible)
               [] stmt.type \in {"Return", "Print"} ->
                    /\ reads_of(stmt.value) \subseteq visible
                    /\ block_scoped(Tail(stmts), visible)
               [] stmt.type = "If" ->
                    /\ reads_of(stmt.condition) \subseteq visible
                    /\ block_scoped(stmt.then_body, visible)
                    /\ block_scoped(stmt.else_body, visible)
                    /\ block_scoped(Tail(stmts), visible)
               [] stmt.type = "While" ->
                    /\ reads_of(stmt.condition) \subseteq visible
                    /\ block_scoped(stmt.body, visible)
                    /\ block_scoped(Tail(stmts), visible)
               [] stmt.type = "FuncCall" ->
                    /\ reads_of(stmt) \subseteq visible
                    /\ block_scoped(Tail(stmts), visible)

ParamsOf(func) == {func.params[k] : k \in 1..Len(func.params)}

(* C18: in a program the analyzer accepts, (1) no name declared only inside
   a then-, else- or while-body is used in the else-branch, in a sibling
   block or after the block, and (2) the symbol table after each if / while
   statement is exactly the table before it; (3) a program that uses, after
   a block, a name declared before the block is not rejected; (4) a program
   that assigns or prints y after a block that declared it is not accepted. *)
C18_BlockDeclarationsDoNotLeak ==
    /\ stage = "analyzed" =>
           \A f \in 1..Len(source.functions) :
               LET func == source.functions[f]
               IN  /\ block_scoped(func.body, ParamsOf(func))
                   /\ \A i \in 1..Len(func.body) :
                          func.body[i].type \in {"If", "While"} =>
                              LET before == visit_body(SubSeq(func.body, 1, i - 1),
                                                       source, ParamsOf(func))
                              IN  visit_statement(func.body[i], source,
                                                  before.symbol_table).symbol_table
                                      = before.symbol_table
    /\ \A block \in Blocks : source = OuterAfterBlock(block) => stage # "failed"
    /\ \A block \in Blocks : \A use \in {FrontStmts[8], FrontStmts[17]} :
           source = FrontProgram(<<block, use>>) => stage # "analyzed"

\* if(a){ int y; } print(y);  has been rejected
C18_Witness ==
    /\ stage = "failed" /\ error = "SemanticError"
    /\ source = FrontProgram(<<FrontStmts[20], FrontStmts[17]>>)

\* int x; while(a < 3){ int y = a; a = a + 1; } x = a + 3;  has been accepted
C18_WitnessOuter ==
    /\ stage = "analyzed"
    /\ source = OuterAfterBlock(FrontStmts[22])

(* C19: in a program the analyzer accepts, every call (statement or
   expression, nested in an argument or not) names a defined function and
   passes as many arguments as that function has parameters, and no two
   functions share a name; a call to a function defined later in the source
   is not a reason to reject, and the program defining g twice is rejected. *)
C19_CallChecking ==
    /\ stage = "analyzed" =>
           LET calls == calls_in_functions(source.functions)
           IN  /\ \A j \in 1..Len(calls) :
                      /\ HasFunction(source, calls[j].name)
                      /\ Len(calls[j].args)
                             = Len(FunctionNamed(source, calls[j].name).params)
               /\ \A i, j \in 1..Len(source.functions) :
                      i # j => source.functions[i].name # source.functions[j].name
    /\ \A forward \in {FrontStmts[6], FrontStmts[10]} :
           source = FrontProgram(<<forward>>) => stage # "failed"
    /\ source = DuplicateFunction => stage # "analyzed"

\* f's body  a = g(1);  calls g, defined after f, and has been accepted
C19_Witness ==
    /\ stage = "analyzed"
    /\ source = FrontProgram(<<FrontStmts[6]>>)
    /\ source.functions[1].name = "f" /\ source.functions[2].name = "g"
    /\ calls_in_functions(source.functions)[1].name = "g"

\* the program defining g twice, and the one calling g(), have been rejected
C19_WitnessRejected ==
    /\ stage = "failed" /\ error = "SemanticError"
    /\ source \in {DuplicateFunction, FrontProgram(<<FrontStmts[14]>>)}

---------------------------------------------------------------------------
\* no string literal inside expr except where here allows it: here is TRUE
\* for the operand of print and for either side of == / !=
RECURSIVE no_stray_string(_, _)
no_stray_string(expr, here) ==
    CASE expr.type = "String" -> here
      [] expr.type = "BinOp" ->
            /\ no_stray_string(expr.left, expr.op \in {"EQ", "NE"})
            /\ no_stray_string(expr.right, expr.op \in {"EQ", "NE"})
      [] expr.type = "FuncCall" ->
            \A k \in 1..Len(expr.args) : no_stray_string(expr.args[k], FALSE)
      [] OTHER -> TRUE

RECURSIVE strings_legal(_)
strings_legal(stmts) ==
    \A i \in 1..Len(stmts) :
        LET stmt == stmts[i]
        IN  CASE stmt.type \in {"Declaration", "Assignment", "Return"} ->
                    no_stray_string(stmt.value, FALSE)
              [] stmt.type = "Print" -> no_stray_string(stmt.value, TRUE)
              [] stmt.type = "If" ->
                    /\ no_stray_string(stmt.condition, FALSE)
                    /\ strings_legal(stmt.then_body)
                    /\ strings_legal(stmt.else_body)
              [] stmt.type = "While" ->
                    /\ no_stray_string(stmt.condition, FALSE)
                    /\ strings_legal(stmt.body)
              [] stmt.type = "FuncCall" -> no_stray_string(stmt, FALSE)

(* C20: a program the analyzer accepts has string literals only as the
   operand of print or as one side of == / !=: none as a call argument, a
   declaration initializer, an assignment value, a return value or an
   if / while condition. *)
C20_StringsOnlyInPrintOrEquality ==
    stage = "analyzed" =>
        \A f \in 1..Len(source.functions) :
            strings_legal(source.functions[f].body)

---------------------------------------------------------------------------
\* the innermost run_func is about to return: it is at END_FUNC (or past the
\* end of the list) or at a RET
Returning ==
    Running /\ (AtEnd(Machine, tac) \/ tac[CurPc(Machine)].op = "RET")

(* C21: interpreting the TAC of a program that passed semantic analysis,
   (1) the param stack is as deep when a run_func returns as it was when
   that run_func was entered, and it is empty once main has returned;
   (2) CALL f, n finds at least n values on the param stack, removes exactly
   the last n, and the callee starts with its k-th parameter bound to the
   k-th of them in push order. *)
C21_ParamStackBalance ==
    /\ [](FromSource =>
             /\ Returning => Len(params) = entry_depth[Len(entry_depth)]
             /\ stage = "done" => params = <<>>)
    /\ [][(FromSource /\ Fetching({"CALL"})) =>
             LET n == Current.a2.n
                 base == Len(params) - n
             IN  /\ base >= 0
                 /\ params' = SubSeq(params, 1, base)
                 /\ stage' = "running"
                 /\ Len(env_stack') = Len(env_stack) + 1
                 /\ \A k \in 1..n :
                        env_stack'[Len(env_stack')]
                                  [tac[functions[Current.a1.s] + k].a1.s]
                            = params[base + k]]_vars

\* in  return f(1, g(2));  g is running: its argument has been taken, the
\* first argument of f waits on the param stack
C21_Witness ==
    /\ stage = "running"
    /\ source = NestedCall(FALSE)
    /\ Len(pc_stack) = 2
    /\ params = <<IntObj(1)>>
    /\ entry_depth = <<0, 1>>
    /\ env_stack[2]["n"] = IntObj(2)

\* return f(g(1), 2);  has run to its end with the value of (1 + 1) - 2
C21_WitnessInnerFirst ==
    /\ stage = "done"
    /\ source = NestedCall(TRUE)
    /\ return_value = IntObj(0)
    /\ params = <<>>

---------------------------------------------------------------------------
\* the parameter names of the function whose block holds position pc
ParamsAt(pc) ==
    LET at == IF pc > Len(tac) THEN Len(tac) ELSE pc
        start == CHOOSE i \in 1..at :
                     /\ tac[i].op = "FUNC"
                     /\ \A j \in (i + 1)..at : tac[j].op # "FUNC"
        decls == {j \in (start + 1)..Len(tac) :
                      \A k \in (start + 1)..j : tac[k].op = "PARAM_DECL"}
    IN  {tac[j].a1.s : j \in decls}

(* C22: (1) while the interpreter runs, env_stack holds one environment per
   active run_func, each binding the parameters of the function that
   activation executes, the top one being that of the running function;
   after execute() has returned, env_stack is empty.  (2) Entering a
   function (from execute or by CALL) pushes exactly one environment and
   leaves the others in place; leaving it, through RET or through END_FUNC,
   pops exactly the top one; no other instruction changes the depth. *)
C22_CallStackDiscipline ==
    /\ [](/\ stage = "running" =>
                /\ Len(env_stack) = Len(pc_stack)
                /\ Len(env_stack) >= 1
                /\ \A k \in 1..Len(env_stack) :
                       ParamsAt(pc_stack[k]) \subseteq DOMAIN env_stack[k]
          /\ stage = "done" => env_stack = <<>> /\ pc_stack = <<>>)
    /\ [][/\ (stage = "optimized" /\ stage' = "running") =>
                 Len(env_stack') = 1
          /\ (Fetching({"CALL"}) /\ stage' = "running") =>
                 /\ Len(env_stack') = Len(env_stack) + 1
                 /\ SubSeq(env_stack', 1, Len(env_stack)) = env_stack
          /\ Returning =>
                 /\ Len(env_stack') = Len(env_stack) - 1
                 /\ \A k \in 1..(Len(env_stack) - 2) :
                        env_stack'[k] = env_stack[k]
                 /\ \A k \in 1..(Len(env_stack) - 1) :
                        DOMAIN env_stack[k] \subseteq DOMAIN env_stack'[k]
          /\ (stage = "running" /\ ~Returning /\ ~Fetching({"CALL"})) =>
                 Len(env_stack') = Len(env_stack)]_vars

\* int show(int a){ print(a); } int main(){ show(1); }  has run to its end:
\* show and main were both left through END_FUNC
C22_Witness ==
    /\ stage = "done"
    /\ source = Show(1)
    /\ output = <<"1">>
    /\ return_value = IntObj(0)
    /\ env_stack = <<>>

---------------------------------------------------------------------------
\* the value an operand stands for, given the frames, newest last
Resolved(stack, val) ==
    IF IsNone(val) THEN IntObj(0)
    ELSE IF is_string_literal(val)
    THEN StrObj(SubSeq(val.s, 2, Len(val.s) - 1))
    ELSE IF IsInt(val) THEN val
    ELSE IF int_parses(val.s) THEN IntObj(int_of(val.s))
    ELSE LET top == Len(stack)
             older == {k \in 1..(top - 1) : val.s \in DOMAIN stack[k]}
         IN  IF top >= 1 /\ val.s \in DOMAIN stack[top] THEN stack[top][val.s]
             ELSE IF older # {}
             THEN stack[CHOOSE k \in older : \A j \in older : j <= k][val.s]
             ELSE IntObj(0)

\* operands tried in every state: none, integers as int and as text, quoted
\* strings, names
OperandSamples ==
    {None, IntObj(7), StrObj("7"), StrObj("-3"), StrObj("\"hi\""),
     StrObj("\"\""), StrObj("\"12\"")}
    \cup {StrObj(name) : name \in {"x", "n", "a", "y", "i", "ret", "zz"}}

(* C23: (1) in every state of a run, an operand evaluates to: 0 if it is
   none; its inner string if it is double-quoted; its integer if it parses
   as one, whatever the frames hold; else, as a name, its binding in the top
   frame if there is one, else its binding in the newest older frame that
   has it, else 0.  (2) MOV stores, PRINT prints, PARAM pushes and RET
   returns that value of its operand. *)
C23_OperandResolutionOrder ==
    /\ [](stage = "running" =>
             \A val \in OperandSamples :
                 get_val_from_env(env_stack, val) = Resolved(env_stack, val))
    /\ [][/\ Fetching({"MOV"}) =>
                 env_stack'[Len(env_stack)][Current.res.s]
                     = Resolved(env_stack, Current.a1)
          /\ Fetching({"PRINT"}) =>
                 output' = Append(output, py_str(Resolved(env_stack, Current.a1)))
          /\ Fetching({"PARAM"}) =>
                 params' = Append(params, Resolved(env_stack, Current.a1))
          /\ Fetching({"RET"}) =>
                 IF Len(pc_stack) = 1
                 THEN return_value' = Resolved(env_stack, Current.a1)
                 ELSE env_stack'[Len(env_stack) - 1]["ret"]
                          = Resolved(env_stack, Current.a1)]_vars

\* in Deep, g is running three frames deep: x is not bound in g's frame, is
\* 2 in f's and 1 in main's, and evaluates to 2
C23_Witness ==
    /\ stage = "running"
    /\ source = Deep
    /\ Len(env_stack) = 3
    /\ "x" \notin DOMAIN env_stack[3]
    /\ env_stack[2]["x"] = IntObj(2)
    /\ env_stack[1]["x"] = IntObj(1)
    /\ get_val_from_env(env_stack, StrObj("x")) = IntObj(2)

\* the text operand 7 was printed and returned as 7 although the frame held
\* 1 under that name
C23_WitnessDigits ==
    /\ stage = "done"
    /\ tac = DigitNameTac
    /\ output = <<"7", "7">>
    /\ return_value = IntObj(7)

---------------------------------------------------------------------------
\* the variables and parameters declared by the function whose block holds
\* position pc
UserVariablesAt(pc) ==
    LET at == IF pc > Len(tac) THEN Len(tac) ELSE pc
        start == CHOOSE i \in 1..at :
                     /\ tac[i].op = "FUNC"
                     /\ \A j \in (i + 1)..at : tac[j].op # "FUNC"
        func == FunctionNamed(source, tac[start].a1.s)
    IN  declared_in(func.body) \cup ParamsOf(func)

\* what env holds under name: <<value>>, or <<>> when name is unbound
Binding(env, name) == IF name \in DOMAIN env THEN <<env[name]>> ELSE <<>>

(* C24: in a compiled program, PARAM changes no frame; CALL leaves every
   existing frame as it is; the return of the callee changes, in the
   caller's frame, no variable or parameter the caller's function declares,
   and changes no older frame; POP changes in its frame only its target. *)
C24_ReturnRegisterIsSeparate ==
    [][FromSource =>
          /\ Fetching({"PARAM"}) => env_stack' = env_stack
          /\ (Fetching({"CALL"}) /\ stage' = "running") =>
                 SubSeq(env_stack', 1, Len(env_stack)) = env_stack
          /\ (Returning /\ Len(pc_stack) >= 2) =>
                 LET caller == Len(env_stack) - 1
                 IN  /\ \A k \in 1..(caller - 1) : env_stack'[k] = env_stack[k]
                     /\ \A v \in UserVariablesAt(pc_stack[caller]) :
                            Binding(env_stack'[caller], v)
                                = Binding(env_stack[caller], v)
          /\ Fetching({"POP"}) =>
                 LET top == Len(env_stack)
                 IN  /\ \A k \in 1..(top - 1) : env_stack'[k] = env_stack[k]
                     /\ \A v \in UserVariablesAt(pc_stack[top])
                                     \ {Current.res.s} :
                            Binding(env_stack'[top], v)
                                = Binding(env_stack[top], v)]_vars

====
